---- MODULE Spec2Model ----
(***************************************************************************)
(* SSHMCPServer (src/ssh_mcp_server_python/main.py): the session manager   *)
(* that holds one paramiko SSHClient, one SFTPClient and the SSHConfig     *)
(* that produced them, and the six tool handlers that act on them.         *)
(*                                                                         *)
(* Every handler is a coroutine that never suspends (paramiko calls are    *)
(* blocking calls, and the one await, of _disconnect_ssh inside            *)
(* _connect_ssh, awaits a coroutine that never yields), so each handler    *)
(* is one atomic action.  The remote host, the SSH library and the local   *)
(* filesystem are the environment: their answers are the \E-bound inputs   *)
(* of the actions.                                                         *)
(***************************************************************************)
EXTENDS Integers, Sequences, FiniteSets, TLC

VARIABLES
    ssh_client,   \* self.ssh_client: id of the held SSHClient, NoHandle for None
    sftp_client,  \* self.sftp_client: id of the held SFTPClient, NoHandle for None
    config,       \* self.config: the recorded SSHConfig, NoConfig for None
    transport,    \* environment: status of every SSHClient object ever created
    channel,      \* environment: status of the SFTP channel over each transport
    environ,      \* environment: os.environ and the key file, as get_env_ssh_config reads them
    op,           \* the handler that ran last
    args,         \* the arguments, when the last handler is connect_ssh
    final,        \* its final_config, when it got as far as merging
    result,       \* "ok": the handler returned; "error": it raised
    error,        \* the text the raised Exception carries (its prefix and its cause)
    reply,        \* what the handler returned
    dialed,       \* the arguments of the SSHClient.connect() call the last handler made
    log,          \* the library and filesystem calls the last handler made, in order
    stream,       \* the command _execute_command is waiting on: its position and the channel
    tasks         \* the tool invocations dispatched on the event loop and not yet finished

vars == <<ssh_client, sftp_client, config, transport, channel, environ, op,
          args, final, result, error, reply, dialed, log, stream, tasks>>

(***************************************************************************)
(* Bounds                                                                  *)
(***************************************************************************)
\* SSHClient objects that can exist at once (a closed or dropped one frees its slot)
NumSlots == 2
\* exit statuses the remote reports: 0..MaxExit
MaxExit == 2
\* chunks of output the channel holds unread before the remote has to wait
Window == 2
\* chunks a remote command writes before it exits: 0..MaxWrites
MaxWrites == 3
\* tool invocations in flight on the event loop at once
NumTasks == 2

Tasks == 1..NumTasks

Slots == 1..NumSlots

(***************************************************************************)
(* Python values                                                           *)
(***************************************************************************)
\* Optional[...] = None for the two handles (main.py:63-64)
NoHandle == 0
\* None for an Optional[str]
NONE == "<None>"
\* None for the Optional[int] port argument (main.py:145)
PortNone == -1
\* the text of UBUNTU_SSH_PORT that int() rejects, and what stands for its ValueError
PortInvalid == -2

\* bool(x) of a str or None: None and "" are falsy
Truthy(x) == x # NONE /\ x # ""
\* bool(p) of an int or None: None and 0 are falsy
TruthyPort(p) == p # PortNone /\ p # 0

\* self.config = None
NoConfig ==
    [host |-> NONE, port |-> PortNone, username |-> NONE, password |-> NONE,
     private_key |-> NONE, private_key_passphrase |-> NONE]

\* no SSHClient.connect() call has been made
NoDial ==
    [id |-> NoHandle, hostname |-> NONE, port |-> PortNone, username |-> NONE,
     password |-> NONE, pkey |-> NONE]

\* one library or filesystem call: what was called, on which object, with what
Ev(e, i, x, y) == [ev |-> e, id |-> i, x |-> x, y |-> y]

\* no command is running: _execute_command is not inside its reads
NoStream == [phase |-> "idle", todo |-> <<>>, outbuf |-> 0, errbuf |-> 0]

\* no invocation: the coroutine of a tool that has not been called, or has
\* finished.  at: where a coroutine stands ("start": dispatched and not yet
\* run; a label: suspended there); a, fc, fmt: its arguments and locals.
NoTask ==
    [at |-> "none", op |-> "", a |-> [host |-> NONE, port |-> PortNone, username |-> NONE,
                                     password |-> NONE, private_key |-> NONE,
                                     private_key_passphrase |-> NONE],
     fc |-> NoConfig, fmt |-> NONE]

\* the part of the state a handler reads and writes, as one value
Here ==
    [ssh_client |-> ssh_client, sftp_client |-> sftp_client, config |-> config,
     transport |-> transport, channel |-> channel, dialed |-> NoDial, log |-> <<>>]

(***************************************************************************)
(* The SSH library's objects.  A transport is "created" by SSHClient(),    *)
(* "open" once connect() has authenticated, "broken" when the connection   *)
(* dropped, "closed" after close().  close() on a live object closes it;   *)
(* close() on a broken one may raise, and then leaves it as it was.        *)
(***************************************************************************)
CloseRaises(status, fault) == status = "broken" /\ fault

\* a slot no live object occupies
Reusable(s, i) ==
    /\ s.transport[i] \in {"free", "closed", "broken"}
    /\ s.ssh_client # i
    /\ s.sftp_client # i

(***************************************************************************)
(* _disconnect_ssh                                                         *)
(***************************************************************************)
\* main.py:366-369 with the missing guard: close() on None raises AttributeError
SftpCloseUnguarded(s, fault) ==
    LET c == s.sftp_client
        raises == c = NoHandle \/ CloseRaises(s.channel[c], fault)
    IN  IF raises
        THEN [state |-> [s EXCEPT !.log = Append(@, Ev("sftp.close", c, "raise", ""))],
              raised |-> TRUE]
        ELSE [state |-> [s EXCEPT !.channel[c] = "closed",
                                  !.sftp_client = NoHandle,
                                  !.log = Append(@, Ev("sftp.close", c, "ok", ""))],
              raised |-> FALSE]

\* main.py:366-369: if self.sftp_client: close it, then clear it
SftpClose(s, fault) ==
    LET c == s.sftp_client
        raises == c # NoHandle /\ CloseRaises(s.channel[c], fault)
    IN  IF c = NoHandle THEN [state |-> s, raised |-> FALSE]
        ELSE IF raises
        THEN [state |-> [s EXCEPT !.log = Append(@, Ev("sftp.close", c, "raise", ""))],
              raised |-> TRUE]
        ELSE [state |-> [s EXCEPT !.channel[c] = "closed",
                                  !.sftp_client = NoHandle,
                                  !.log = Append(@, Ev("sftp.close", c, "ok", ""))],
              raised |-> FALSE]

\* main.py:371-374: if self.ssh_client: close it, then clear it.  Closing the
\* transport closes the channels it carries.
SshClose(s, fault) ==
    LET t == s.ssh_client
        raises == t # NoHandle /\ CloseRaises(s.transport[t], fault)
    IN  IF t = NoHandle THEN [state |-> s, raised |-> FALSE]
        ELSE IF raises
        THEN [state |-> [s EXCEPT !.log = Append(@, Ev("ssh.close", t, "raise", ""))],
              raised |-> TRUE]
        ELSE [state |-> [s EXCEPT !.transport[t] = "closed",
                                  !.channel[t] = IF @ \in {"open", "broken"}
                                                 THEN "closed" ELSE @,
                                  !.ssh_client = NoHandle,
                                  !.log = Append(@, Ev("ssh.close", t, "ok", ""))],
              raised |-> FALSE]

\* main.py:361-385.  f says which close() raises if its object is broken.  An
\* exception leaves the try block at once: nothing after it runs, and the
\* handler re-raises it as Exception("Disconnect failed: ...").
_disconnect_ssh(s, f) ==
    LET a == SftpClose(s, f.sftp)
        b == SshClose(a.state, f.ssh)
    IN  IF a.raised THEN a
        ELSE IF b.raised THEN b
        ELSE [state |-> [b.state EXCEPT !.config = NoConfig], raised |-> FALSE]

CloseFaults == [sftp : BOOLEAN, ssh : BOOLEAN]

(***************************************************************************)
(* get_env_ssh_config                                                      *)
(***************************************************************************)
\* the defaults read once, when the module is loaded, and kept: every call
\* returns what the environment held then
CachedEnvConfig(e) ==
    [raised |-> FALSE,
     config |-> [host |-> "dh", port |-> 22, username |-> "du", password |-> "dpw",
                 private_key |-> NONE, private_key_passphrase |-> NONE]]

\* int(text) for the texts UBUNTU_SSH_PORT takes here; PortInvalid: ValueError
ParseInt(text) ==
    CASE text = "22" -> 22
      [] text = "2200" -> 2200
      [] text = "0" -> 0
      [] OTHER -> PortInvalid

\* os.getenv(name, default): the default when the variable is unset
Getenv(value, default) == IF value = NONE THEN default ELSE value

\* main.py:31-58.  e.keyfile is the content of the file at UBUNTU_SSH_PRIVATE_KEY_PATH,
\* NONE when no such file exists.  raised: int() rejected the port text.
get_env_ssh_config(e) ==
    LET p == ParseInt(Getenv(e.PORT, "22"))
    IN  [raised |-> p = PortInvalid,
         config |->
            [host |-> Getenv(e.HOST, ""),
             port |-> p,
             username |-> Getenv(e.USERNAME, ""),
             password |-> e.PASSWORD,
             private_key |-> IF Truthy(e.KEY_PATH) /\ e.keyfile # NONE
                             THEN e.keyfile ELSE NONE,
             private_key_passphrase |-> e.PASSPHRASE]]

(***************************************************************************)
(* _connect_ssh, step by step                                              *)
(***************************************************************************)
\* `x or y` written as `x if x is not None else y`: an empty argument wins
OrNotNone(x, y) == IF x # NONE THEN x ELSE y

\* main.py:165-170: `x or y` on str and None
Or(x, y) == IF Truthy(x) THEN x ELSE y

\* main.py:166: `port or env_config.port`
OrPort(p, q) == IF TruthyPort(p) THEN p ELSE q

\* main.py:164-171
Merge(a, d) ==
    [host |-> Or(a.host, d.host),
     port |-> OrPort(a.port, d.port),
     username |-> Or(a.username, d.username),
     password |-> Or(a.password, d.password),
     private_key |-> Or(a.private_key, d.private_key),
     private_key_passphrase |-> Or(a.private_key_passphrase, d.private_key_passphrase)]

\* the password/key check dropped: only host and username are required
ValidateNoCredentialCheck(c) ==
    IF ~Truthy(c.host) THEN "Host is required"
    ELSE IF ~Truthy(c.username) THEN "Username is required"
    ELSE ""

\* main.py:173-179: the message of the ValueError raised, "" when none is
Validate(c) ==
    IF ~Truthy(c.host) THEN "Host is required"
    ELSE IF ~Truthy(c.username) THEN "Username is required"
    ELSE IF ~Truthy(c.password) /\ ~Truthy(c.private_key)
         THEN "Either password or private key is required"
    ELSE ""

\* main.py:196-201
key_types == <<"RSA", "Ed25519", "ECDSA", "DSS">>

\* The key texts of the model: the format each is written in, NONE for text
\* that is no key at all, and the passphrase that decrypts it, NONE for an
\* unencrypted key.
KeyFormatOf(text) ==
    CASE text = "rsa-key" -> "RSA"
      [] text = "ed25519-key" -> "Ed25519"
      [] text = "ed25519-key-enc" -> "Ed25519"
      [] text = "ecdsa-key" -> "ECDSA"
      [] text = "dss-key" -> "DSS"
      [] OTHER -> NONE

KeyPassphraseOf(text) == IF text = "ed25519-key-enc" THEN "pp" ELSE NONE

\* main.py:206-209: key_class.from_private_key(io, password=passphrase) returns
\* a key (TRUE) or raises (FALSE).  A passphrase given for an unencrypted key
\* is ignored.
from_private_key(fmt, text, passphrase) ==
    /\ KeyFormatOf(text) = fmt
    /\ KeyPassphraseOf(text) \in {NONE, passphrase}

\* the loop without its break: every format is tried, the last success wins
RECURSIVE TryKeysNoBreak(_, _, _)
TryKeysNoBreak(text, passphrase, i) ==
    IF i > Len(key_types) THEN [fmt |-> NONE, log |-> <<>>]
    ELSE LET rest == TryKeysNoBreak(text, passphrase, i + 1)
             hit == from_private_key(key_types[i], text, passphrase)
         IN  [fmt |-> IF rest.fmt # NONE THEN rest.fmt
                      ELSE IF hit THEN key_types[i] ELSE NONE,
              log |-> <<Ev(IF hit THEN "from_private_key.ok"
                           ELSE "from_private_key.raise",
                           NoHandle, key_types[i], passphrase)>> \o rest.log]

\* main.py:203-214: the formats from the i-th on, in order, up to the first
\* that parses.  fmt: the format of private_key_obj, NONE when it stays None.
RECURSIVE TryKeys(_, _, _)
TryKeys(text, passphrase, i) ==
    IF i > Len(key_types) THEN [fmt |-> NONE, log |-> <<>>]
    ELSE IF from_private_key(key_types[i], text, passphrase)
    THEN [fmt |-> key_types[i],
          log |-> <<Ev("from_private_key.ok", NoHandle, key_types[i], passphrase)>>]
    ELSE LET rest == TryKeys(text, passphrase, i + 1)
         IN  [fmt |-> rest.fmt,
              log |-> <<Ev("from_private_key.raise", NoHandle, key_types[i],
                           passphrase)>> \o rest.log]

\* main.py:192-214
LoadKey(text, passphrase) == TryKeys(text, passphrase, 1)

\* the check of main.py:216 dropped: connect() is called with pkey=None
KeyMissingIgnored(key) == FALSE

\* main.py:216: `if not private_key_obj`
KeyMissing(key) == key.fmt = NONE

\* the slot the next SSHClient() takes: an empty one first, else that of an
\* object nothing refers to any more; NoHandle when NumSlots live objects exist
Alloc(s) ==
    IF \E i \in Slots : s.transport[i] = "free"
    THEN CHOOSE i \in Slots :
            /\ s.transport[i] = "free"
            /\ \A j \in Slots : s.transport[j] = "free" => i <= j
    ELSE IF \E i \in Slots : Reusable(s, i)
    THEN CHOOSE i \in Slots :
            /\ Reusable(s, i)
            /\ \A j \in Slots : Reusable(s, j) => i <= j
    ELSE NoHandle

\* what a handler returns: the fields its text is built from
Reply(kind, username, host, num, sections) ==
    [kind |-> kind, username |-> username, host |-> host, num |-> num,
     sections |-> sections]

NoReply == Reply("", "", "", 0, <<>>)

\* the Exception a handler raises: its class, the prefix the handler puts
\* before str(e), and the class and text of e, the exception that triggered it
Err(prefix, cause, text) ==
    [type |-> "Exception", prefix |-> prefix, cause |-> cause, text |-> text]

NoError == [type |-> "", prefix |-> "", cause |-> "", text |-> ""]

\* main.py:249-254: close the SSHClient, whatever close() does, and clear it
CleanupSsh(s, fault) ==
    LET t == s.ssh_client
    IN  IF t = NoHandle THEN s
        ELSE IF CloseRaises(s.transport[t], fault)
        THEN [s EXCEPT !.ssh_client = NoHandle,
                       !.log = Append(@, Ev("ssh.close", t, "raise", ""))]
        ELSE [s EXCEPT !.transport[t] = "closed",
                       !.channel[t] = IF @ \in {"open", "broken"} THEN "closed" ELSE @,
                       !.ssh_client = NoHandle,
                       !.log = Append(@, Ev("ssh.close", t, "ok", ""))]

\* main.py:255-260: close the SFTPClient, whatever close() does, and clear it
CleanupSftp(s, fault) ==
    LET c == s.sftp_client
    IN  IF c = NoHandle THEN s
        ELSE IF CloseRaises(s.channel[c], fault)
        THEN [s EXCEPT !.sftp_client = NoHandle,
                       !.log = Append(@, Ev("sftp.close", c, "raise", ""))]
        ELSE [s EXCEPT !.channel[c] = "closed",
                       !.sftp_client = NoHandle,
                       !.log = Append(@, Ev("sftp.close", c, "ok", ""))]

\* the except block without its cleanup: the handles are kept as they are
CleanupNothing(s, f) == s

\* main.py:245-260: the except block of _connect_ssh, up to its raise
Cleanup(s, f) == CleanupSftp(CleanupSsh(s, f.ssh), f.sftp)

\* self.config assigned as soon as it is merged: a connect_ssh that raises
\* later leaves it recorded
ConnectFailedRecording(s, f, fc, cause, text) ==
    [state |-> [Cleanup(s, f) EXCEPT !.config = fc], result |-> "error",
     error |-> Err("SSH connection failed", cause, text), reply |-> NoReply,
     final |-> fc, blocked |-> FALSE]

\* main.py:261: what _connect_ssh hands back when it raises
ConnectFailed(s, f, fc, cause, text) ==
    [state |-> Cleanup(s, f), result |-> "error",
     error |-> Err("SSH connection failed", cause, text), reply |-> NoReply,
     final |-> fc, blocked |-> FALSE]

\* no teardown of the session held: the new SSHClient replaces the old handle
TeardownSkipped(s, f) == [state |-> s, raised |-> FALSE]

\* main.py:155-158
Teardown(s, f) ==
    IF s.ssh_client # NoHandle THEN _disconnect_ssh(s, f)
    ELSE [state |-> s, raised |-> FALSE]

\* main.py:184-185: self.ssh_client = paramiko.SSHClient(), in slot t.  The
\* dead objects nothing refers to are collected.
NewClient(s, t) ==
    [s EXCEPT !.ssh_client = t,
              !.transport = [i \in Slots |-> IF i = t THEN "created"
                                             ELSE IF Reusable(s, i) THEN "free"
                                             ELSE @[i]],
              !.channel = [i \in Slots |-> IF i = t \/ Reusable(s, i) THEN "free"
                                           ELSE @[i]],
              !.log = Append(@, Ev("SSHClient", t, "", ""))]

\* connect() given the password along with the parsed key
DialWithPassword(s, fc, fmt, answer) ==
    LET t == s.ssh_client
        bykey == Truthy(fc.private_key)
    IN  [s EXCEPT !.transport[t] = IF answer = "ok" THEN "open" ELSE @,
                  !.dialed = [id |-> t, hostname |-> fc.host, port |-> fc.port,
                              username |-> fc.username,
                              password |-> fc.password,
                              pkey |-> IF bykey THEN fmt ELSE NONE],
                  !.log = Append(@, Ev("connect", t,
                                       IF bykey THEN "pkey" ELSE "password", answer))]

\* main.py:219-235: self.ssh_client.connect(...) with the parsed key when key
\* text is present, with the password otherwise.  answer is the remote's:
\* "ok", "auth" (it rejects the credential) or "conn" (it cannot be reached).
Dial(s, fc, fmt, answer) ==
    LET t == s.ssh_client
        bykey == Truthy(fc.private_key)
    IN  [s EXCEPT !.transport[t] = IF answer = "ok" THEN "open" ELSE @,
                  !.dialed = [id |-> t, hostname |-> fc.host, port |-> fc.port,
                              username |-> fc.username,
                              password |-> IF bykey THEN NONE ELSE fc.password,
                              pkey |-> IF bykey THEN fmt ELSE NONE],
                  !.log = Append(@, Ev("connect", t,
                                       IF bykey THEN "pkey" ELSE "password", answer))]

\* main.py:238: self.sftp_client = self.ssh_client.open_sftp()
OpenSftp(s, answer) ==
    LET t == s.ssh_client
    IN  IF answer = "ok"
        THEN [s EXCEPT !.channel[t] = "open",
                       !.sftp_client = t,
                       !.log = Append(@, Ev("open_sftp", t, "ok", ""))]
        ELSE [s EXCEPT !.log = Append(@, Ev("open_sftp", t, "raise", ""))]

\* a success message that also shows the password used
SuccessMsgEchoing(fc) ==
    Reply("connected", fc.username, fc.host, fc.port, <<fc.password>>)

\* main.py:241-243: f"Successfully connected to {username}@{host}:{port}"
SuccessMsg(fc) == Reply("connected", fc.username, fc.host, fc.port, <<>>)

\* main.py:142-261.  a: the arguments; e: the environment variables and key
\* file; k: the answers of the environment (which close() raises, in the
\* teardown and in the except block, and what the remote says to connect()
\* and to open_sftp()).
_connect_ssh(s, a, e, k) ==
    LET d == Teardown(s, k.teardown)
        s1 == d.state
        envc == get_env_ssh_config(e)
        fc == Merge(a, envc.config)
        invalid == Validate(fc)
        t == Alloc(s1)
        s2 == NewClient(s1, t)
        key == LoadKey(fc.private_key, fc.private_key_passphrase)
        bykey == Truthy(fc.private_key)
        s3 == IF bykey THEN [s2 EXCEPT !.log = @ \o key.log] ELSE s2
        s4 == Dial(s3, fc, key.fmt, k.connect)
        s5 == OpenSftp(s4, k.sftp)
        s6 == [s5 EXCEPT !.config = fc]
    IN  IF d.raised
        THEN ConnectFailed(s1, k.cleanup, NoConfig, "Exception", "Disconnect failed")
        ELSE IF envc.raised
        THEN ConnectFailed(s1, k.cleanup, NoConfig, "ValueError", "invalid literal for int()")
        ELSE IF invalid # ""
        THEN ConnectFailed(s1, k.cleanup, fc, "ValueError", invalid)
        ELSE IF t = NoHandle
        THEN [state |-> s1, result |-> "error", error |-> NoError, reply |-> NoReply,
              final |-> fc, blocked |-> TRUE]
        ELSE IF bykey /\ KeyMissing(key)
        THEN ConnectFailed(s3, k.cleanup, fc, "ValueError", "Failed to load private key")
        ELSE IF k.connect = "auth"
        THEN ConnectFailed(s4, k.cleanup, fc, "AuthenticationException",
                           "Authentication failed")
        ELSE IF k.connect = "conn"
        THEN ConnectFailed(s4, k.cleanup, fc, "OSError", "Unable to connect")
        ELSE IF k.sftp # "ok"
        THEN ConnectFailed(s5, k.cleanup, fc, "SSHException", "open_sftp failed")
        ELSE [state |-> s6, result |-> "ok", error |-> NoError,
              reply |-> SuccessMsg(fc),
              final |-> fc, blocked |-> FALSE]

\* what a handler hands back when it returns, and when it raises
Returned(s, r) == [state |-> s, result |-> "ok", error |-> NoError, reply |-> r]

Raised(s, e) == [state |-> s, result |-> "error", error |-> e, reply |-> NoReply]

\* main.py:265-266, 389-390: raised before the try block, so with no prefix
NotConnected == Err("", "Exception", "Not connected to SSH. Please connect first.")

\* main.py:306-307, 338-339
NotConnectedSftp == Err("", "Exception", "SSH not connected (sftp)")

(***************************************************************************)
(* _execute_command                                                        *)
(***************************************************************************)
\* _execute_command raising on a non-zero exit status, as a checked call would
ExecuteChecked(s, k) ==
    LET t == s.ssh_client
    IN  IF t = NoHandle THEN Raised(s, NotConnected)
        ELSE IF s.transport[t] # "open"
        THEN Raised([s EXCEPT !.log = Append(@, Ev("exec_command", t, "command", "raise"))],
                    Err("Command execution failed", "SSHException", "SSH session not active"))
        ELSE IF k.fault
        THEN Raised([s EXCEPT !.transport[t] = "broken",
                              !.channel[t] = IF @ = "open" THEN "broken" ELSE @,
                              !.log = Append(@, Ev("exec_command", t, "command", "raise"))],
                    Err("Command execution failed", "SSHException", "connection lost"))
        ELSE IF k.exit # 0
        THEN Raised([s EXCEPT !.log = Append(@, Ev("exec_command", t, "command", "ok"))],
                    Err("Command execution failed", "CalledProcessError", "non-zero exit"))
        ELSE Returned([s EXCEPT !.log = Append(@, Ev("exec_command", t, "command", "ok"))],
                      Reply("executed", "", "", k.exit, <<>>))

\* _execute_command with a cleanup it does not have: a transport fault makes it
\* close and clear the SSHClient
ExecuteDroppingHandle(s, k) ==
    LET t == s.ssh_client
    IN  IF t = NoHandle THEN Raised(s, NotConnected)
        ELSE IF s.transport[t] # "open" \/ k.fault
        THEN Raised([s EXCEPT !.transport[t] = "closed",
                              !.ssh_client = NoHandle,
                              !.log = @ \o <<Ev("exec_command", t, "command", "raise"),
                                             Ev("ssh.close", t, "ok", "")>>],
                    Err("Command execution failed", "SSHException", "connection lost"))
        ELSE Returned([s EXCEPT !.log = Append(@, Ev("exec_command", t, "command", "ok"))],
                      Reply("executed", "", "", k.exit, <<>>))

\* main.py:263-302.  k.exit: the exit status the remote reports; k.fault: the
\* connection drops while the command runs.  On a broken transport
\* exec_command raises.
_execute_command(s, k) ==
    LET t == s.ssh_client
    IN  IF t = NoHandle THEN Raised(s, NotConnected)
        ELSE IF s.transport[t] # "open"
        THEN Raised([s EXCEPT !.log = Append(@, Ev("exec_command", t, "command", "raise"))],
                    Err("Command execution failed", "SSHException", "SSH session not active"))
        ELSE IF k.fault
        THEN Raised([s EXCEPT !.transport[t] = "broken",
                              !.channel[t] = IF @ = "open" THEN "broken" ELSE @,
                              !.log = Append(@, Ev("exec_command", t, "command", "raise"))],
                    Err("Command execution failed", "SSHException", "connection lost"))
        ELSE Returned([s EXCEPT !.log = Append(@, Ev("exec_command", t, "command", "ok"))],
                      Reply("executed", "", "", k.exit, <<>>))

(***************************************************************************)
(* _upload_file, _download_file                                            *)
(***************************************************************************)
\* _upload_file without the check of main.py:313-314: the missing local file is
\* found by put(), after the mkdir
UploadNoExistsCheck(s, k) ==
    LET c == s.sftp_client
        live == s.channel[c] = "open"
        mk == IF live THEN k.mkdir ELSE "IOError"
        s1 == IF k.remote_dir
              THEN [s EXCEPT !.log = Append(@, Ev("mkdir", c, "remote_dir", mk))]
              ELSE s
        pt == IF live /\ k.exists THEN k.put ELSE "raise"
        s2 == [s1 EXCEPT !.log = Append(@, Ev("put", c, "remote_path", pt))]
    IN  IF c = NoHandle THEN Raised(s, NotConnectedSftp)
        ELSE IF k.remote_dir /\ mk \notin {"ok", "FileExistsError"}
        THEN Raised(s1, Err("File upload failed", mk, "mkdir failed"))
        ELSE IF ~k.exists
        THEN Raised(s2, Err("File upload failed", "FileNotFoundError", "Local file not found"))
        ELSE IF pt # "ok"
        THEN Raised(s2, Err("File upload failed", "IOError", "put failed"))
        ELSE Returned(s2, Reply("uploaded", "", "", 0, <<>>))

\* main.py:304-334.  k.exists: os.path.exists(local_path); k.remote_dir:
\* os.path.dirname(remote_path) is not empty; k.mkdir: "ok" or the class of
\* the exception sftp.mkdir raises; k.put: "ok" or "raise".  Every request
\* on a channel that is not open raises.
_upload_file(s, k) ==
    LET c == s.sftp_client
        live == s.channel[c] = "open"
        mk == IF live THEN k.mkdir ELSE "IOError"
        s1 == IF k.remote_dir
              THEN [s EXCEPT !.log = Append(@, Ev("mkdir", c, "remote_dir", mk))]
              ELSE s
        pt == IF live THEN k.put ELSE "raise"
        s2 == [s1 EXCEPT !.log = Append(@, Ev("put", c, "remote_path", pt))]
    IN  IF c = NoHandle THEN Raised(s, NotConnectedSftp)
        ELSE IF ~k.exists
        THEN Raised(s, Err("File upload failed", "FileNotFoundError", "Local file not found"))
        ELSE IF k.remote_dir /\ mk \notin {"ok", "FileExistsError"}
        THEN Raised(s1, Err("File upload failed", mk, "mkdir failed"))
        ELSE IF pt # "ok"
        THEN Raised(s2, Err("File upload failed", "IOError", "put failed"))
        ELSE Returned(s2, Reply("uploaded", "", "", 0, <<>>))

\* main.py:336-359.  k.local_dir: "" when os.path.dirname(local_path) is
\* empty, "exists" or "missing" otherwise; k.get: "ok" or "raise".
_download_file(s, k) ==
    LET c == s.sftp_client
        s1 == IF k.local_dir = "missing"
              THEN [s EXCEPT !.log = Append(@, Ev("makedirs", NoHandle, "local_dir", "ok"))]
              ELSE s
        gt == IF s.channel[c] = "open" THEN k.get ELSE "raise"
        s2 == [s1 EXCEPT !.log = Append(@, Ev("get", c, "remote_path", gt))]
    IN  IF c = NoHandle THEN Raised(s, NotConnectedSftp)
        ELSE IF gt # "ok"
        THEN Raised(s2, Err("File download failed", "IOError", "get failed"))
        ELSE Returned(s2, Reply("downloaded", "", "", 0, <<>>))

(***************************************************************************)
(* _get_system_info                                                        *)
(***************************************************************************)
\* main.py:395-401
commands == <<"uname -a", "lsb_release -a", "df -h", "free -h", "ps aux | head -10">>

\* main.py:404-412: the commands from the i-th on.  fails: the commands whose
\* exec_command or read raises; on a broken transport every one does.
RECURSIVE RunCommands(_, _, _)
RunCommands(s, fails, i) ==
    IF i > Len(commands) THEN [state |-> s, sections |-> <<>>]
    ELSE LET t == s.ssh_client
             bad == i \in fails \/ s.transport[t] # "open"
             how == IF bad THEN "raise" ELSE "ok"
             s1 == [s EXCEPT !.log = Append(@, Ev("exec_command", t, commands[i], how))]
             rest == RunCommands(s1, fails, i + 1)
         IN  [state |-> rest.state,
              sections |-> <<[header |-> commands[i],
                              body |-> IF bad THEN "Command execution error"
                                       ELSE "stdout"]>> \o rest.sections]

\* _get_system_info without the try around each command (main.py:405-412):
\* the first command that fails ends the loop and the handler raises
SystemInfoAborting(s, fails) ==
    LET t == s.ssh_client
        bad == IF s.transport[t] # "open" THEN 1..Len(commands) ELSE fails
        first == CHOOSE i \in bad : \A j \in bad : i <= j
        r == RunCommands(s, fails, 1)
    IN  IF t = NoHandle THEN Raised(s, NotConnected)
        ELSE IF bad # {}
        THEN Raised([r.state EXCEPT !.log = SubSeq(@, 1, first)],
                    Err("System info failed", "SSHException", "Command execution error"))
        ELSE Returned(r.state, Reply("system_info", "", "", 0, r.sections))

\* _get_system_info without the guard of main.py:389-390: on None every
\* exec_command raises AttributeError, which the loop turns into an error line
SystemInfoUnguarded(s, fails) ==
    LET n == Len(commands)
        all == [i \in 1..n |-> Ev("exec_command", NoHandle, commands[i], "raise")]
        lines == [i \in 1..n |-> [header |-> commands[i],
                                  body |-> "Command execution error"]]
        r == RunCommands(s, fails, 1)
    IN  IF s.ssh_client = NoHandle
        THEN Returned([s EXCEPT !.log = all], Reply("system_info", "", "", 0, lines))
        ELSE Returned(r.state, Reply("system_info", "", "", 0, r.sections))

\* main.py:387-420
_get_system_info(s, fails) ==
    IF s.ssh_client = NoHandle THEN Raised(s, NotConnected)
    ELSE LET r == RunCommands(s, fails, 1)
         IN  Returned(r.state, Reply("system_info", "", "", 0, r.sections))

(***************************************************************************)
(* Inputs                                                                  *)
(***************************************************************************)
Args(h, p, u, pw, key, pp) ==
    [host |-> h, port |-> p, username |-> u, password |-> pw,
     private_key |-> key, private_key_passphrase |-> pp]

\* connect_ssh called with no argument (main.py:78-83: every default is None)
NoArgs == Args(NONE, PortNone, NONE, NONE, NONE, NONE)

\* a call that names host, port, user and password
BaseArgs == Args("h", 2222, "u", "pw", NONE, NONE)

\* the calls of connect_ssh the session properties are checked on
ArgsSample ==
    {NoArgs,
     BaseArgs,
     Args("h", PortNone, "u", NONE, "ed25519-key", NONE),
     Args("h", 0, "", "pw", "garbage", "")}

\* every call of connect_ssh: each argument absent, empty (zero) or present
ArgsAll ==
    {Args(h, p, u, pw, key, pp) :
        h \in {NONE, "", "h"}, p \in {PortNone, 0, 2222}, u \in {NONE, "", "u"},
        pw \in {NONE, "", "pw"}, key \in {NONE, "", "ed25519-key"},
        pp \in {NONE, "", "pp"}}

\* calls of connect_ssh that differ in the key text, the passphrase and the
\* password given
ArgsKeys ==
    {BaseArgs} \cup
    {Args("h", PortNone, "u", pw, key, pp) :
        pw \in {NONE, "pw"},
        key \in {NONE, "", "rsa-key", "ed25519-key", "ed25519-key-enc", "garbage"},
        pp \in {NONE, "pp", "wrong"}}

Environ(h, p, u, pw, pp, path, file) ==
    [HOST |-> h, PORT |-> p, USERNAME |-> u, PASSWORD |-> pw, PASSPHRASE |-> pp,
     KEY_PATH |-> path, keyfile |-> file]

\* the environments the session properties are checked on
EnvironSample ==
    {Environ(NONE, NONE, NONE, NONE, NONE, NONE, NONE),
     Environ("dh", "2200", "du", "dpw", "dpp", "/key", "rsa-key"),
     Environ("dh", NONE, "du", "dpw", NONE, NONE, "dss-key"),
     Environ("dh", "abc", "du", "dpw", NONE, NONE, NONE)}

\* every environment: each variable unset or set, the key file there or not
EnvironAll ==
    {Environ(h, p, u, pw, pp, path, file) :
        h \in {NONE, "dh"}, p \in {NONE, "2200"}, u \in {NONE, "du"},
        pw \in {NONE, "dpw"}, pp \in {NONE, "dpp"}, path \in {NONE, "/key"},
        file \in {"rsa-key"}}

\* environments that differ in the key file, the passphrase and the password
EnvironKeys ==
    {Environ(NONE, NONE, NONE, pw, pp, "/key", file) :
        pw \in {NONE, "dpw"}, pp \in {NONE, "pp"},
        file \in {NONE, "ecdsa-key", "dss-key", "ed25519-key-enc", "garbage"}}

\* calls of connect_ssh that leave some or all fields to the defaults
ArgsDefaults ==
    {NoArgs,
     BaseArgs,
     Args("h", PortNone, NONE, NONE, NONE, NONE),
     Args(NONE, 2222, "u", "", "", NONE)}

\* environments that differ in the value of each default
EnvironDefaults ==
    {Environ(h, p, "du", pw, NONE, "/key", file) :
        h \in {"dh", "dh2"}, p \in {NONE, "2200"}, pw \in {"dpw", "dpw2"},
        file \in {NONE, "rsa-key"}}

\* The answers of the environment to one _connect_ssh call.  A close() can
\* raise only on a broken object, and the only objects a connect closes that
\* can be broken are those held when it starts; open_sftp is reached only
\* when connect() succeeded.
ConnectAnswers ==
    {k \in [teardown : CloseFaults, cleanup : CloseFaults,
            connect : {"ok", "auth", "conn"}, sftp : {"ok", "raise"}] :
        /\ (k.teardown.sftp \/ k.cleanup.sftp) =>
              sftp_client # NoHandle /\ channel[sftp_client] = "broken"
        /\ (k.teardown.ssh \/ k.cleanup.ssh) =>
              ssh_client # NoHandle /\ transport[ssh_client] = "broken"
        /\ k.connect # "ok" => k.sftp = "ok"}

\* The answers of the local filesystem and of the SFTP channel to one
\* _upload_file call.  parent_exists: the directory of remote_path is there
\* already.  mkdir of a directory that exists fails, and the library reports
\* it as FileExistsError or, the SFTP status carrying no errno, as a plain
\* IOError; mkdir of one that does not exist succeeds or fails otherwise.
UploadAnswers ==
    {k \in [exists : BOOLEAN, remote_dir : BOOLEAN, parent_exists : BOOLEAN,
            mkdir : {"ok", "FileExistsError", "IOError"}, put : {"ok", "raise"}] :
        /\ ~k.remote_dir => k.mkdir = "ok" /\ ~k.parent_exists
        /\ k.parent_exists => k.mkdir \in {"FileExistsError", "IOError"}
        /\ ~k.parent_exists => k.mkdir \in {"ok", "IOError"}}

\* the same for one _disconnect_ssh call
DisconnectAnswers ==
    {f \in CloseFaults :
        /\ f.sftp => sftp_client # NoHandle /\ channel[sftp_client] = "broken"
        /\ f.ssh => ssh_client # NoHandle /\ transport[ssh_client] = "broken"}

(***************************************************************************)
(* Actions: one per tool (main.py:76-138), each the whole handler          *)
(***************************************************************************)
\* the state after a handler that hands back r
Commit(name, r) ==
    /\ op' = name
    /\ ssh_client' = r.state.ssh_client
    /\ sftp_client' = r.state.sftp_client
    /\ config' = r.state.config
    /\ transport' = r.state.transport
    /\ channel' = r.state.channel
    /\ dialed' = r.state.dialed
    /\ log' = r.state.log
    /\ result' = r.result
    /\ error' = r.error
    /\ reply' = r.reply

\* a handler that is not connect_ssh
NotConnect ==
    /\ args' = NoArgs
    /\ final' = NoConfig
    /\ UNCHANGED <<environ, stream, tasks>>

\* main.py:76-93, on the arguments of A
Connect(A) ==
    \E a \in A, k \in ConnectAnswers :
        LET r == _connect_ssh(Here, a, environ, k)
        IN  /\ ~r.blocked
            /\ Commit("connect", r)
            /\ args' = a
            /\ final' = r.final
            /\ UNCHANGED <<environ, stream, tasks>>

connect_ssh == Connect(ArgsSample)

\* main.py:119-122
disconnect_ssh ==
    \E f \in DisconnectAnswers :
        LET d == _disconnect_ssh(Here, f)
        IN  /\ Commit("disconnect",
                      IF d.raised
                      THEN Raised(d.state, Err("Disconnect failed", "SSHException",
                                               "close failed"))
                      ELSE Returned(d.state, Reply("disconnected", "", "", 0, <<>>)))
            /\ NotConnect

\* main.py:95-101
execute_command ==
    \E k \in [fault : BOOLEAN, exit : 0..MaxExit] :
        /\ k.fault => k.exit = 0 /\ ssh_client # NoHandle /\ transport[ssh_client] = "open"
        /\ ssh_client = NoHandle \/ transport[ssh_client] # "open" => k.exit = 0
        /\ Commit("execute", _execute_command(Here, k))
        /\ NotConnect

\* main.py:103-109
upload_file ==
    \E k \in UploadAnswers :
        /\ Commit("upload", _upload_file(Here, k))
        /\ NotConnect

\* main.py:111-117
download_file ==
    \E k \in [local_dir : {"", "exists", "missing"}, get : {"ok", "raise"}] :
        /\ Commit("download", _download_file(Here, k))
        /\ NotConnect

\* main.py:124-138
get_system_info ==
    \E fails \in SUBSET (1..Len(commands)) :
        /\ ssh_client = NoHandle \/ transport[ssh_client] # "open" => fails = {}
        /\ Commit("system_info", _get_system_info(Here, fails))
        /\ NotConnect

(***************************************************************************)
(* The environment                                                         *)
(***************************************************************************)
Quiet ==
    /\ result' = "ok"
    /\ error' = NoError
    /\ reply' = NoReply
    /\ log' = <<>>
    /\ dialed' = NoDial
    /\ args' = NoArgs
    /\ final' = NoConfig
    /\ UNCHANGED <<ssh_client, sftp_client, config, stream, tasks>>

\* the environment variables or the key file change between two calls
SetEnviron ==
    \E e \in EnvironSample :
        /\ e # environ
        /\ environ' = e
        /\ op' = "environ"
        /\ Quiet
        /\ UNCHANGED <<transport, channel>>

\* the connection of an open transport drops, and its channels with it
TransportDrop ==
    \E t \in Slots :
        /\ transport[t] = "open"
        /\ transport' = [transport EXCEPT ![t] = "broken"]
        /\ channel' = [channel EXCEPT ![t] = IF @ = "open" THEN "broken" ELSE @]
        /\ op' = "drop"
        /\ Quiet
        /\ UNCHANGED environ

\* the SFTP subsystem of an open transport dies, the transport stays up
ChannelDrop ==
    \E t \in Slots :
        /\ channel[t] = "open"
        /\ channel' = [channel EXCEPT ![t] = "broken"]
        /\ op' = "drop"
        /\ Quiet
        /\ UNCHANGED <<environ, transport>>

(***************************************************************************)
(* Specifications                                                          *)
(***************************************************************************)
\* main.py:61-65: the state __init__ leaves
Disconnected ==
    /\ ssh_client = NoHandle
    /\ sftp_client = NoHandle
    /\ config = NoConfig

Fresh ==
    /\ Disconnected
    /\ transport = [i \in Slots |-> "free"]
    /\ channel = [i \in Slots |-> "free"]
    /\ op = "init"
    /\ args = NoArgs
    /\ final = NoConfig
    /\ result = "ok"
    /\ error = NoError
    /\ reply = NoReply
    /\ dialed = NoDial
    /\ log = <<>>
    /\ stream = NoStream
    /\ tasks = [t \in Tasks |-> NoTask]

Init == Fresh /\ environ \in EnvironSample

Next ==
    \/ connect_ssh
    \/ disconnect_ssh
    \/ execute_command
    \/ upload_file
    \/ download_file
    \/ get_system_info
    \/ SetEnviron
    \/ TransportDrop
    \/ ChannelDrop

Spec == Init /\ [][Next]_vars

\* Credential resolution on every combination of arguments and defaults: a
\* connect_ssh call with any arguments, made on the fresh server or after a
\* call with BaseArgs that returned (so from Disconnected and from Connected).
InitResolve == Fresh /\ environ \in EnvironAll

resolve_connect ==
    /\ op = "init" \/ (args = BaseArgs /\ result = "ok")
    /\ Connect(ArgsAll)

SpecResolve == InitResolve /\ [][resolve_connect]_vars

\* Key loading on every key text, passphrase and password, in the same way.
InitKeys == Fresh /\ environ \in EnvironKeys

keys_connect ==
    /\ op = "init" \/ (args = BaseArgs /\ result = "ok")
    /\ Connect(ArgsKeys)

SpecKeys == InitKeys /\ [][keys_connect]_vars

\* The defaults changing between two calls of connect_ssh: each call is made
\* on the fresh server or after the environment changed, and the environment
\* changes after each call, what the call left still standing.
InitDefaults == Fresh /\ environ \in EnvironDefaults

defaults_connect ==
    /\ op \in {"init", "environ"}
    /\ Connect(ArgsDefaults)

change_defaults ==
    \E e \in EnvironDefaults :
        /\ op = "connect"
        /\ e # environ
        /\ environ' = e
        /\ op' = "environ"
        /\ UNCHANGED <<ssh_client, sftp_client, config, transport, channel, args,
                       final, result, error, reply, dialed, log, stream, tasks>>

NextDefaults == defaults_connect \/ change_defaults

SpecDefaults == InitDefaults /\ [][NextDefaults]_vars

(***************************************************************************)
(* _execute_command, read by read (main.py:276-281).  The remote command    *)
(* writes its output chunk by chunk to standard output and standard error, *)
(* which travel over one channel: a chunk written stays in the channel's   *)
(* window until the handler reads it, and with Window chunks unread the    *)
(* remote waits.  The command exits, and both streams end, when it has     *)
(* written everything.  The handler reads standard output to its end, then *)
(* standard error to its end, then the exit status; exec_command is called *)
(* with no timeout, so each read waits as long as it takes.                *)
(***************************************************************************)
\* what a command writes, in order: every sequence of MaxWrites chunks or less
RECURSIVE Scripts(_)
Scripts(n) ==
    IF n = 0 THEN {<<>>}
    ELSE Scripts(n - 1) \cup
         {Append(w, c) : w \in {v \in Scripts(n - 1) : Len(v) = n - 1},
                         c \in {"out", "err"}}

\* the frame of a step inside _execute_command: nothing of the server changes
Reading ==
    UNCHANGED <<ssh_client, sftp_client, config, transport, channel, environ, op,
                args, final, result, error, reply, dialed, log, tasks>>

\* the session the command runs on is set up (main.py:76-93)
exec_connect ==
    /\ op = "init"
    /\ Connect({BaseArgs})

\* main.py:276: exec_command(actual_command) starts the command and returns
\* the three streams
exec_command ==
    \E w \in Scripts(MaxWrites) :
        /\ stream.phase = "idle"
        /\ ssh_client # NoHandle
        /\ transport[ssh_client] = "open"
        /\ stream' = [phase |-> "stdout", todo |-> w, outbuf |-> 0, errbuf |-> 0]
        /\ Reading

\* the remote command writes its next chunk, when the window has room
remote_write ==
    /\ stream.phase # "idle"
    /\ stream.todo # <<>>
    /\ stream.outbuf + stream.errbuf < Window
    /\ stream' = [stream EXCEPT !.todo = Tail(@),
                                 !.outbuf = IF Head(stream.todo) = "out" THEN @ + 1 ELSE @,
                                 !.errbuf = IF Head(stream.todo) = "err" THEN @ + 1 ELSE @]
    /\ Reading

\* main.py:279: stdout.read() takes the chunks of standard output as they
\* come, and returns at the end of the stream
stdout_read ==
    /\ stream.phase = "stdout"
    /\ \/ /\ stream.outbuf > 0
          /\ stream' = [stream EXCEPT !.outbuf = @ - 1]
       \/ /\ stream.outbuf = 0
          /\ stream.todo = <<>>
          /\ stream' = [stream EXCEPT !.phase = "stderr"]
    /\ Reading

\* main.py:280: stderr.read(), in the same way
stderr_read ==
    /\ stream.phase = "stderr"
    /\ \/ /\ stream.errbuf > 0
          /\ stream' = [stream EXCEPT !.errbuf = @ - 1]
       \/ /\ stream.errbuf = 0
          /\ stream.todo = <<>>
          /\ stream' = [stream EXCEPT !.phase = "status"]
    /\ Reading

\* main.py:281-297: recv_exit_status() returns once the command has exited,
\* and the handler returns the text
recv_exit_status ==
    \E x \in 0..MaxExit :
        /\ stream.phase = "status"
        /\ stream.todo = <<>>
        /\ Commit("execute", _execute_command(Here, [fault |-> FALSE, exit |-> x]))
        /\ args' = NoArgs
        /\ final' = NoConfig
        /\ stream' = NoStream
        /\ UNCHANGED <<environ, tasks>>

InitExec == Fresh /\ environ \in EnvironSample

NextExec ==
    \/ exec_connect
    \/ exec_command
    \/ remote_write
    \/ stdout_read
    \/ stderr_read
    \/ recv_exit_status

\* the remote command and the handler both keep running: a step that can be
\* taken is taken
SpecExec == InitExec /\ [][NextExec]_vars /\ WF_vars(NextExec)

(***************************************************************************)
(* Several tool invocations on one event loop (main.py:76-138).  Each tool  *)
(* is a coroutine function; a call is dispatched as a coroutine, and the    *)
(* loop runs one coroutine at a time, from where it stands to the next      *)
(* point where it suspends or to its end.  A coroutine suspends only at an  *)
(* await of something that yields to the loop.                              *)
(***************************************************************************)
\* the places inside the handlers where a call takes time: the await of
\* _disconnect_ssh (main.py:158), SSHClient.connect() (219-235) and
\* SSHClient.close() (372)
Labels == {"teardown", "connect", "close"}

\* connect() and close() awaited, as calls handed to an executor would be
SuspensionPointsAtCalls == {"connect", "close"}

\* The labels where a coroutine suspends: none.  connect() and close() are
\* plain blocking calls, not awaited; the tools await _connect_ssh,
\* _execute_command, ... (main.py:86, 101, 109, 117, 122, 138) and
\* _connect_ssh awaits _disconnect_ssh (158), coroutines whose bodies hold
\* no await that yields, so that awaiting them runs them to their end.
SuspensionPoints == {}

\* _connect_ssh up to its connect() call (main.py:155-218), when it gets there
ConnectBegin(s, a, e, k) ==
    LET s1 == Teardown(s, k.teardown).state
        fc == Merge(a, get_env_ssh_config(e).config)
        s2 == NewClient(s1, Alloc(s1))
        key == LoadKey(fc.private_key, fc.private_key_passphrase)
    IN  [state |-> IF Truthy(fc.private_key) THEN [s2 EXCEPT !.log = @ \o key.log]
                   ELSE s2,
         fc |-> fc, fmt |-> key.fmt]

\* _connect_ssh from its connect() call on (main.py:219-261), on the
\* attributes as they are by then: self.ssh_client.connect on None raises
ConnectEnd(s, fc, fmt, k) ==
    LET s4 == Dial(s, fc, fmt, k.connect)
        s5 == OpenSftp(s4, k.sftp)
    IN  IF s.ssh_client = NoHandle
        THEN ConnectFailed(s, k.cleanup, fc, "AttributeError", "NoneType has no connect")
        ELSE IF k.connect = "auth"
        THEN ConnectFailed(s4, k.cleanup, fc, "AuthenticationException",
                           "Authentication failed")
        ELSE IF k.connect = "conn"
        THEN ConnectFailed(s4, k.cleanup, fc, "OSError", "Unable to connect")
        ELSE IF k.sftp # "ok"
        THEN ConnectFailed(s5, k.cleanup, fc, "SSHException", "open_sftp failed")
        ELSE [state |-> [s5 EXCEPT !.config = fc], result |-> "ok", error |-> NoError,
              reply |-> SuccessMsg(fc), final |-> fc, blocked |-> FALSE]

\* _disconnect_ssh up to the return of ssh_client.close() (main.py:366-372):
\* the SFTPClient closed and cleared, the SSHClient closed and still held
DisconnectBegin(s, f) ==
    LET a == SftpClose(s, f.sftp).state
        t == a.ssh_client
    IN  [a EXCEPT !.transport[t] = "closed",
                  !.channel[t] = IF @ \in {"open", "broken"} THEN "closed" ELSE @,
                  !.log = Append(@, Ev("ssh.close", t, "ok", ""))]

\* _disconnect_ssh from there on (main.py:373-380)
DisconnectEnd(s) == [s EXCEPT !.ssh_client = NoHandle, !.config = NoConfig]

\* a coroutine stopped at a suspension point: nothing is returned yet
Suspend(s, t, label, a, fc, fmt) ==
    /\ Commit("suspended", Returned(s, NoReply))
    /\ args' = a
    /\ final' = fc
    /\ tasks' = [tasks EXCEPT ![t] = [@ EXCEPT !.at = label, !.fc = fc, !.fmt = fmt]]

\* a coroutine run to its end
Finish(t, name, r, a, fc) ==
    /\ Commit(name, r)
    /\ args' = a
    /\ final' = fc
    /\ tasks' = [tasks EXCEPT ![t] = NoTask]

\* the invocations of the tools that take no connection argument
ToolNames == {"disconnect", "execute", "upload", "download", "system_info"}

\* a tool is called: its coroutine is dispatched, and has not run yet
call_tool ==
    \E t \in Tasks, name \in ToolNames \cup {"connect"} :
        /\ tasks[t].at = "none"
        /\ tasks' = [tasks EXCEPT ![t] =
                        [NoTask EXCEPT !.at = "start", !.op = name,
                                       !.a = IF name = "connect" THEN BaseArgs ELSE NoArgs]]
        /\ UNCHANGED <<ssh_client, sftp_client, config, transport, channel, environ, op,
                       args, final, result, error, reply, dialed, log, stream>>

\* the loop runs the coroutine of a connect_ssh call (main.py:76-93, 142-261)
run_connect ==
    \E t \in Tasks, k \in ConnectAnswers :
        LET c == tasks[t]
            whole == _connect_ssh(Here, c.a, environ, k)
            begin == ConnectBegin(Here, c.a, environ, k)
            r == IF c.at = "connect" THEN ConnectEnd(Here, c.fc, c.fmt, k) ELSE whole
        IN  /\ c.op = "connect"
            /\ c.at \in {"start", "connect"}
            /\ IF /\ c.at = "start"
                  /\ "connect" \in SuspensionPoints
                  /\ \E i \in DOMAIN whole.state.log : whole.state.log[i].ev = "connect"
               THEN Suspend(begin.state, t, "connect", c.a, begin.fc, begin.fmt)
               ELSE ~r.blocked /\ Finish(t, "connect", r, c.a, r.final)
            /\ UNCHANGED <<environ, stream>>

\* the loop runs the coroutine of a disconnect_ssh call (main.py:119-122, 361-385)
run_disconnect ==
    \E t \in Tasks, f \in DisconnectAnswers :
        LET c == tasks[t]
            d == _disconnect_ssh(Here, f)
            whole == IF d.raised
                     THEN Raised(d.state, Err("Disconnect failed", "SSHException",
                                              "close failed"))
                     ELSE Returned(d.state, Reply("disconnected", "", "", 0, <<>>))
            r == IF c.at = "close"
                 THEN Returned(DisconnectEnd(Here), Reply("disconnected", "", "", 0, <<>>))
                 ELSE whole
        IN  /\ c.op = "disconnect"
            /\ c.at \in {"start", "close"}
            /\ IF /\ c.at = "start"
                  /\ "close" \in SuspensionPoints
                  /\ ~d.raised
                  /\ ssh_client # NoHandle
               THEN Suspend(DisconnectBegin(Here, f), t, "close", NoArgs, NoConfig, NONE)
               ELSE Finish(t, c.op, r, NoArgs, NoConfig)
            /\ UNCHANGED <<environ, stream>>

\* what a handler that borrows the session can hand back in the state s
Outcomes(name, s) ==
    CASE name = "execute" ->
            {_execute_command(s, [fault |-> FALSE, exit |-> x]) : x \in 0..MaxExit}
      [] name = "upload" -> {_upload_file(s, k) : k \in UploadAnswers}
      [] name = "download" ->
            {_download_file(s, k) :
                k \in [local_dir : {"", "exists", "missing"}, get : {"ok", "raise"}]}
      [] OTHER -> {_get_system_info(s, fails) : fails \in {{}, {2, 4}}}

\* the loop runs the coroutine of an execute_command, upload_file,
\* download_file or get_system_info call (main.py:95-117, 124-138)
run_borrower ==
    \E t \in Tasks :
        /\ tasks[t].at = "start"
        /\ tasks[t].op \in ToolNames \ {"disconnect"}
        /\ \E r \in Outcomes(tasks[t].op, Here) : Finish(t, tasks[t].op, r, NoArgs, NoConfig)
        /\ UNCHANGED <<environ, stream>>

InitTasks == Fresh /\ environ = Environ(NONE, NONE, NONE, NONE, NONE, NONE, NONE)

NextTasks ==
    \/ call_tool
    \/ run_connect
    \/ run_disconnect
    \/ run_borrower

SpecTasks == InitTasks /\ [][NextTasks]_vars

(***************************************************************************)
(* Properties                                                              *)
(***************************************************************************)
OpenTransports == {i \in Slots : transport[i] = "open"}

OpenChannels == {i \in Slots : channel[i] = "open"}

\* the positions in the log l of the calls named e
Calls(l, e) == {i \in DOMAIN l : l[i].ev = e}

\* the handler that ran last held a session when it started: it began by
\* closing the SFTPClient it held
TornDownFirst == Len(log) >= 2 /\ log[1].ev = "sftp.close" /\ log[2].ev = "ssh.close"

\* C1: whatever the handlers called so far, at most one transport is open; a
\* connect_ssh that returns leaves exactly one open transport and one open
\* SFTP channel, the ones the two handles name; and a connect_ssh called
\* while a session is held closes that session's SFTPClient, then its
\* SSHClient, before it creates the new SSHClient and calls connect().
C1_AtMostOneSession ==
    /\ [](Cardinality(OpenTransports) <= 1)
    /\ [](op = "connect" /\ result = "ok" =>
            /\ OpenTransports = {ssh_client}
            /\ OpenChannels = {sftp_client}
            /\ sftp_client = ssh_client)
    /\ [][(/\ op' = "connect"
           /\ ssh_client # NoHandle
           /\ sftp_client # NoHandle
           /\ Calls(log', "SSHClient") # {}) =>
            /\ log'[1] = Ev("sftp.close", sftp_client, "ok", "")
            /\ log'[2] = Ev("ssh.close", ssh_client, "ok", "")
            /\ \A i \in Calls(log', "SSHClient") \cup Calls(log', "connect") :
                  i > 2 /\ log'[i].id # ssh_client]_vars

\* C1's case: a connect_ssh called while a session was held has returned
C1_Witness == op = "connect" /\ result = "ok" /\ TornDownFirst

\* C2: a connect_ssh that raised left both handles cleared, no transport and
\* no SFTP channel open, and closed every SSHClient it created.
C2_FailedConnectRollsBack ==
    op = "connect" /\ result = "error" =>
        /\ ssh_client = NoHandle
        /\ sftp_client = NoHandle
        /\ OpenTransports = {}
        /\ OpenChannels = {}
        /\ \A i \in Calls(log, "SSHClient") :
              /\ transport[log[i].id] = "closed"
              /\ \E j \in Calls(log, "ssh.close") : j > i /\ log[j].id = log[i].id

\* C2's case: called while a session was held, connect_ssh tore it down,
\* created a new SSHClient and failed at authentication
C2_Witness ==
    /\ op = "connect"
    /\ result = "error"
    /\ TornDownFirst
    /\ \E i \in Calls(log, "connect") : log[i].y = "auth"

\* C3: a disconnect_ssh, whatever close() does, returns and leaves the two
\* handles and the recorded config cleared.
C3_DisconnectAlwaysClears == op = "disconnect" => result = "ok" /\ Disconnected

\* what _disconnect_ssh leaves of the state s when the closes fail as f says
AfterDisconnect(s, f) ==
    LET d == _disconnect_ssh(s, f).state
    IN  <<d.ssh_client, d.sftp_client, d.config, d.transport, d.channel>>

\* C4: a disconnect_ssh called with no handle held returns, calls no close()
\* and ends Disconnected, so from Disconnected it changes nothing; a
\* disconnect_ssh right after one that returned changes nothing either; and
\* whatever two disconnects in a row can leave, a single one can leave too.
C4_DisconnectIdempotent ==
    /\ [][(op' = "disconnect" /\ ssh_client = NoHandle /\ sftp_client = NoHandle) =>
            /\ result' = "ok"
            /\ log' = <<>>
            /\ Disconnected'
            /\ UNCHANGED <<transport, channel>>]_vars
    /\ [][(op = "disconnect" /\ result = "ok" /\ op' = "disconnect") =>
            /\ result' = "ok"
            /\ log' = <<>>
            /\ UNCHANGED <<ssh_client, sftp_client, config, transport, channel>>]_vars
    /\ [](\A f1 \in CloseFaults, f2 \in CloseFaults :
            AfterDisconnect(_disconnect_ssh(Here, f1).state, f2)
                \in {AfterDisconnect(Here, f) : f \in CloseFaults})

\* C4's case: disconnect_ssh was called with no handle held, after a session was closed
C4_Witness ==
    /\ op = "disconnect"
    /\ result = "ok"
    /\ log = <<>>
    /\ Disconnected
    /\ Cardinality({i \in Slots : transport[i] = "closed"}) = 1

BorrowingOps == {"execute", "upload", "download", "system_info"}

LifecycleCalls == {"SSHClient", "connect", "open_sftp", "ssh.close", "sftp.close"}

\* C5: with no handle held, execute_command, upload_file, download_file and
\* get_system_info raise the not-connected Exception, call nothing on the
\* remote, on the SFTP channel or on the local filesystem, and leave the
\* handles, the config and every library object as they were.
C5_NotConnectedRejects ==
    [][(op' \in BorrowingOps /\ ssh_client = NoHandle /\ sftp_client = NoHandle) =>
         /\ result' = "error"
         /\ error' = IF op' \in {"upload", "download"} THEN NotConnectedSftp
                     ELSE NotConnected
         /\ log' = <<>>
         /\ UNCHANGED <<ssh_client, sftp_client, config, transport, channel>>]_vars

\* C5's case: upload_file was called with no handle held
C5_Witness ==
    /\ op = "upload"
    /\ error = NotConnectedSftp
    /\ ssh_client = NoHandle
    /\ sftp_client = NoHandle

\* C6: execute_command, upload_file, download_file and get_system_info,
\* returning or raising, leave self.ssh_client, self.sftp_client and
\* self.config as they were, create, connect and close no library object.
C6_BorrowersKeepSession ==
    [][op' \in BorrowingOps =>
         /\ UNCHANGED <<ssh_client, sftp_client, config>>
         /\ \A i \in DOMAIN log' : log'[i].ev \notin LifecycleCalls
         /\ \A i \in Slots :
               /\ transport'[i] # transport[i] =>
                     transport[i] = "open" /\ transport'[i] = "broken"
               /\ channel'[i] # channel[i] =>
                     channel[i] = "open" /\ channel'[i] = "broken"]_vars

\* C6's case: execute_command raised on a transport fault, the handles still held
C6_Witness ==
    /\ op = "execute"
    /\ result = "error"
    /\ ssh_client # NoHandle
    /\ sftp_client # NoHandle
    /\ transport[ssh_client] = "broken"
    /\ config # NoConfig

\* the defaults the last connect_ssh read
Defaults == get_env_ssh_config(environ).config

\* an explicit value that is present and not empty, else the default
Explicit(x, d) == IF x \notin {NONE, ""} THEN x ELSE d

\* an explicit port that is present and not zero, else the default
ExplicitPort(p, d) == IF p \notin {PortNone, 0} THEN p ELSE d

\* the calls of from_private_key the last handler made, in order
KeyCalls ==
    SelectSeq(log, LAMBDA e : e.ev \in {"from_private_key.ok", "from_private_key.raise"})

\* C7: for each of the six fields, what connect_ssh merges, hands to
\* from_private_key and to SSHClient.connect(), and records in self.config is
\* the argument when it is present and not empty (not zero for the port), and
\* the default otherwise.
C7_ExplicitOverridesDefault ==
    op = "connect" =>
        /\ final.host = Explicit(args.host, Defaults.host)
        /\ final.port = ExplicitPort(args.port, Defaults.port)
        /\ final.username = Explicit(args.username, Defaults.username)
        /\ final.password = Explicit(args.password, Defaults.password)
        /\ final.private_key = Explicit(args.private_key, Defaults.private_key)
        /\ final.private_key_passphrase =
              Explicit(args.private_key_passphrase, Defaults.private_key_passphrase)
        /\ \A i \in DOMAIN KeyCalls :
              KeyCalls[i].y =
                  Explicit(args.private_key_passphrase, Defaults.private_key_passphrase)
        /\ dialed.id # NoHandle =>
              /\ dialed.hostname = Explicit(args.host, Defaults.host)
              /\ dialed.port = ExplicitPort(args.port, Defaults.port)
              /\ dialed.username = Explicit(args.username, Defaults.username)
              /\ dialed.password \in {NONE, Explicit(args.password, Defaults.password)}
              /\ dialed.pkey # NONE =>
                    dialed.pkey = KeyFormatOf(Explicit(args.private_key,
                                                       Defaults.private_key))
        /\ result = "ok" => config = final

\* C7's case: a connect_ssh that mixed empty, absent and present arguments
\* with defaults has returned
C7_Witness ==
    /\ op = "connect"
    /\ result = "ok"
    /\ args = Args("", 0, "u", NONE, "ed25519-key", "")
    /\ config = [host |-> "dh", port |-> 2200, username |-> "u", password |-> "dpw",
                 private_key |-> "ed25519-key", private_key_passphrase |-> "dpp"]
    /\ dialed.hostname = "dh"

\* the merged config lacks a required field
Incomplete(c) ==
    \/ ~Truthy(c.host)
    \/ ~Truthy(c.username)
    \/ ~Truthy(c.password) /\ ~Truthy(c.private_key)

\* C8: when the merged config has no host, no username, or neither password
\* nor key, connect_ssh raises the ValueError of the validation, and before
\* that it parsed no key, created no SSHClient and called no connect(): all
\* it called is the teardown of the session held.
C8_IncompleteConfigRejected ==
    (op = "connect" /\ final # NoConfig /\ Incomplete(final)) =>
        /\ result = "error"
        /\ error.cause = "ValueError"
        /\ error.text \in {"Host is required", "Username is required",
                           "Either password or private key is required"}
        /\ dialed = NoDial
        /\ KeyCalls = <<>>
        /\ \A i \in DOMAIN log : log[i].ev \in {"sftp.close", "ssh.close"}
        /\ \A i \in Slots : transport[i] \notin {"created", "open"}

\* C8's case: neither password nor key after merging, called while a session
\* was held
C8_Witness ==
    /\ op = "connect"
    /\ error.text = "Either password or private key is required"
    /\ Truthy(final.host)
    /\ Truthy(final.username)
    /\ TornDownFirst

\* C9: the formats are tried in the order of key_types, from the first; an
\* attempt succeeds exactly when the text parses under its format; nothing is
\* tried after a success, and every format is tried when none succeeds; the
\* key connect() is given is the one the last, successful, attempt returned.
C9_KeyFormatsInOrder ==
    op = "connect" =>
        LET n == Len(KeyCalls)
        IN  /\ n <= Len(key_types)
            /\ Truthy(final.private_key) /\ Calls(log, "SSHClient") # {} => n >= 1
            /\ ~Truthy(final.private_key) => n = 0
            /\ \A i \in 1..n :
                  /\ KeyCalls[i].x = key_types[i]
                  /\ KeyCalls[i].ev = "from_private_key.ok" <=>
                        from_private_key(key_types[i], final.private_key,
                                         final.private_key_passphrase)
                  /\ KeyCalls[i].ev = "from_private_key.ok" => i = n
            /\ n >= 1 /\ KeyCalls[n].ev = "from_private_key.raise" => n = Len(key_types)
            /\ n >= 1 /\ dialed.id # NoHandle =>
                  /\ KeyCalls[n].ev = "from_private_key.ok"
                  /\ dialed.pkey = KeyCalls[n].x
                  /\ dialed.password = NONE

\* C9's case: text that parses as Ed25519 only: RSA raised, Ed25519 was used
C9_Witness ==
    /\ op = "connect"
    /\ result = "ok"
    /\ Len(KeyCalls) = 2
    /\ KeyCalls[1].ev = "from_private_key.raise"
    /\ KeyCalls[1].x = "RSA"
    /\ KeyCalls[2].ev = "from_private_key.ok"
    /\ KeyCalls[2].x = "Ed25519"
    /\ dialed.pkey = "Ed25519"

\* the key text of the merged config parses under no format
Unparsable(c) ==
    /\ Truthy(c.private_key)
    /\ \A i \in DOMAIN key_types :
          ~from_private_key(key_types[i], c.private_key, c.private_key_passphrase)

\* C10: when the merged config has key text that parses under no format,
\* connect_ssh raises, with or without a password, and has called neither
\* connect() nor open_sftp(); the error is that of the key loading whenever
\* the config was complete.
C10_UnparsableKeyIsFatal ==
    (op = "connect" /\ final # NoConfig /\ Unparsable(final)) =>
        /\ result = "error"
        /\ dialed = NoDial
        /\ Calls(log, "connect") = {}
        /\ Calls(log, "open_sftp") = {}
        /\ OpenTransports = {}
        /\ ~Incomplete(final) =>
              /\ error.text = "Failed to load private key"
              /\ Len(KeyCalls) = Len(key_types)

\* C10's case: unparsable key text and a password
C10_Witness ==
    /\ op = "connect"
    /\ error.text = "Failed to load private key"
    /\ final.private_key = "garbage"
    /\ final.password = "pw"
    /\ dialed = NoDial

\* the key text of the merged config parses under some format
Parses(c) ==
    /\ Truthy(c.private_key)
    /\ \E i \in DOMAIN key_types :
          from_private_key(key_types[i], c.private_key, c.private_key_passphrase)

\* C11: a connect_ssh calls SSHClient.connect() at most once.  When the merged
\* config has key text, the call is given the parsed key and no password,
\* whether or not a password is there and whatever the remote answers; it is
\* given the password, and no key, exactly when the merged config has no key
\* text.
C11_KeyTakesPrecedence ==
    op = "connect" =>
        /\ Cardinality(Calls(log, "connect")) <= 1
        /\ (dialed.id # NoHandle) <=> (Calls(log, "connect") # {})
        /\ dialed.id # NoHandle =>
              /\ Truthy(final.private_key) =>
                    /\ Parses(final)
                    /\ dialed.pkey = KeyFormatOf(final.private_key)
                    /\ dialed.password = NONE
                    /\ \A i \in Calls(log, "connect") : log[i].x = "pkey"
              /\ ~Truthy(final.private_key) =>
                    /\ dialed.pkey = NONE
                    /\ dialed.password = final.password
                    /\ \A i \in Calls(log, "connect") : log[i].x = "password"
              /\ dialed.password # NONE <=> ~Truthy(final.private_key)

\* C11's case: a password and a key that parses, and the remote rejected the key
C11_Witness ==
    /\ op = "connect"
    /\ result = "error"
    /\ Truthy(final.password)
    /\ Parses(final)
    /\ dialed.pkey # NONE
    /\ dialed.password = NONE
    /\ \E i \in Calls(log, "connect") : log[i].y = "auth"

\* the session is Connected: both handles held, on an open transport
Connected(s) ==
    /\ s.ssh_client # NoHandle
    /\ s.sftp_client # NoHandle
    /\ s.transport[s.ssh_client] = "open"

\* C12: in every state where the session is Connected, for every exit status
\* the remote reports, zero or not, _execute_command returns a result that
\* carries that status; and an execute_command called while Connected raises
\* only with the transport broken, and returning or raising leaves the
\* handles and the config as they were.
C12_NonZeroExitIsNoError ==
    /\ [](Connected(Here) =>
            \A x \in 0..MaxExit :
                LET r == _execute_command(Here, [fault |-> FALSE, exit |-> x])
                IN  /\ r.result = "ok"
                    /\ r.error = NoError
                    /\ r.reply.kind = "executed"
                    /\ r.reply.num = x
                    /\ r.state.ssh_client = ssh_client
                    /\ r.state.sftp_client = sftp_client
                    /\ r.state.config = config
                    /\ r.state.transport = transport)
    /\ [][(op' = "execute" /\ Connected(Here)) =>
            /\ UNCHANGED <<ssh_client, sftp_client, config>>
            /\ result' = "error" <=> transport'[ssh_client] = "broken"
            /\ result' = "ok" => transport' = transport /\ reply'.num \in 0..MaxExit]_vars

\* C12's case: execute_command returned a non-zero exit status, the session held
C12_Witness ==
    /\ op = "execute"
    /\ result = "ok"
    /\ reply.num = MaxExit
    /\ Connected(Here)
    /\ config # NoConfig

\* C13: the error a failed connect_ssh raises is the triggering exception
\* itself, of its own class and with nothing put before its text, so that a
\* missing field, a key or credential that is refused, and a transport that
\* cannot be set up reach the caller as errors of different classes.
C13_ErrorKindPreserved ==
    op = "connect" /\ result = "error" =>
        /\ error.type = error.cause
        /\ error.prefix = ""
        /\ error.text \in {"Host is required", "Username is required",
                           "Either password or private key is required"} =>
              error.type \notin {"AuthenticationException", "OSError", "SSHException"}
        /\ error.text = "Authentication failed" => error.type = "AuthenticationException"
        /\ error.text = "Unable to connect" => error.type = "OSError"

\* C14: in every state where an SFTPClient is held, _upload_file of a local
\* path that does not exist raises the upload error whose cause is the
\* FileNotFoundError, whatever the remote would answer, having called neither
\* mkdir nor put and changed nothing; and an upload_file that ended with that
\* error issued no request on the channel.
C14_MissingLocalFileStopsUpload ==
    /\ [](sftp_client # NoHandle =>
            \A k \in UploadAnswers :
                ~k.exists =>
                    LET r == _upload_file(Here, k)
                    IN  /\ r.result = "error"
                        /\ r.error = Err("File upload failed", "FileNotFoundError",
                                         "Local file not found")
                        /\ Calls(r.state.log, "mkdir") = {}
                        /\ Calls(r.state.log, "put") = {}
                        /\ r.state = Here)
    /\ [][(op' = "upload" /\ error'.cause = "FileNotFoundError") =>
            /\ result' = "error"
            /\ log' = <<>>
            /\ UNCHANGED <<ssh_client, sftp_client, config, transport, channel>>]_vars

\* C14's case: upload_file of a missing local file, called with the channel open
C14_Witness ==
    /\ op = "upload"
    /\ result = "error"
    /\ error.cause = "FileNotFoundError"
    /\ sftp_client # NoHandle
    /\ channel[sftp_client] = "open"
    /\ log = <<>>

\* C15: in every state where the SFTP channel held is open, an _upload_file
\* of an existing local file to a remote path whose directory exists already
\* calls mkdir, ignores its failure, calls put and, put succeeding, returns;
\* and a mkdir that fails for a directory that does not exist makes it raise
\* without calling put.
C15_ExistingParentTolerated ==
    (sftp_client # NoHandle /\ channel[sftp_client] = "open") =>
        \A k \in UploadAnswers :
            LET r == _upload_file(Here, k)
            IN  /\ (k.exists /\ k.remote_dir /\ k.parent_exists /\ k.put = "ok") =>
                      /\ r.result = "ok"
                      /\ Cardinality(Calls(r.state.log, "mkdir")) = 1
                      /\ Cardinality(Calls(r.state.log, "put")) = 1
                /\ (k.exists /\ k.remote_dir /\ ~k.parent_exists /\ k.mkdir # "ok") =>
                      /\ r.result = "error"
                      /\ Calls(r.state.log, "put") = {}

\* the sections a get_system_info returns when the commands of fails fail
Sections(fails) ==
    [i \in 1..Len(commands) |->
        [header |-> commands[i],
         body |-> IF i \in fails THEN "Command execution error" ELSE "stdout"]]

Idle ==
    [ssh_client |-> NoHandle, sftp_client |-> NoHandle, config |-> NoConfig,
     transport |-> [i \in Slots |-> "free"], channel |-> [i \in Slots |-> "free"],
     dialed |-> NoDial, log |-> <<>>]

Accepting ==
    [teardown |-> [sftp |-> FALSE, ssh |-> FALSE],
     cleanup |-> [sftp |-> FALSE, ssh |-> FALSE], connect |-> "ok", sftp |-> "ok"]

\* C17: what a connect_ssh returns is built from the username, the host and
\* the port of the merged config and from nothing else: any other successful
\* connect_ssh, with whatever password, key text and passphrase in its
\* arguments and its defaults, that merges the same username, host and port
\* returns the same value.
C17_DescriptorHidesSecrets ==
    op = "connect" /\ result = "ok" =>
        /\ reply.kind = "connected"
        /\ reply.username = final.username
        /\ reply.host = final.host
        /\ reply.num = final.port
        /\ \A a \in ArgsKeys, e \in EnvironKeys :
              LET r == _connect_ssh(Idle, a, e, Accepting)
              IN  (/\ r.result = "ok"
                   /\ r.final.username = final.username
                   /\ r.final.host = final.host
                   /\ r.final.port = final.port) => r.reply = reply

\* C17's case: a connect_ssh by key has returned, where another by password
\* to the same user, host and port returns as well
C17_Witness ==
    /\ op = "connect"
    /\ result = "ok"
    /\ dialed.pkey = "Ed25519"
    /\ final.private_key = "ed25519-key-enc"
    /\ final.private_key_passphrase = "pp"
    /\ \E a \in ArgsKeys :
          LET r == _connect_ssh(Idle, a, environ, Accepting)
          IN  /\ r.result = "ok"
              /\ r.final.private_key = NONE
              /\ r.final.password = "pw"
              /\ r.final.port = final.port
              /\ r.reply = reply

\* the defaults the environment e holds
DefaultsOf(e) ==
    [host |-> IF e.HOST = NONE THEN "" ELSE e.HOST,
     port |-> IF e.PORT = NONE THEN 22 ELSE ParseInt(e.PORT),
     username |-> IF e.USERNAME = NONE THEN "" ELSE e.USERNAME,
     password |-> e.PASSWORD,
     private_key |-> IF e.KEY_PATH \notin {NONE, ""} THEN e.keyfile ELSE NONE,
     private_key_passphrase |-> e.PASSPHRASE]

\* C18: every connect_ssh, the first and each one made after the environment
\* changed, merges its arguments with the defaults the environment holds when
\* it is called: each field it was given no value for is the default of now,
\* whatever the config recorded before; connect() is called with these
\* values; and the config recorded when it returns is this merged config.
C18_DefaultsReadEachConnect ==
    [][op' = "connect" =>
         LET d == DefaultsOf(environ)
         IN  /\ final' = Merge(args', d)
             /\ ~Truthy(args'.host) => final'.host = d.host
             /\ ~TruthyPort(args'.port) => final'.port = d.port
             /\ ~Truthy(args'.username) => final'.username = d.username
             /\ ~Truthy(args'.password) => final'.password = d.password
             /\ ~Truthy(args'.private_key) => final'.private_key = d.private_key
             /\ dialed'.id # NoHandle =>
                   /\ dialed'.hostname = final'.host
                   /\ dialed'.port = final'.port
                   /\ dialed'.username = final'.username
                   /\ dialed'.password \in {NONE, final'.password}
             /\ result' = "ok" => config' = final']_vars

\* C18's case: a connect_ssh that names the host only has returned and
\* recorded the defaults of now; it replaced a session, which in SpecDefaults
\* was set up before the environment last changed
C18_Witness ==
    /\ op = "connect"
    /\ result = "ok"
    /\ TornDownFirst
    /\ args = Args("h", PortNone, NONE, NONE, NONE, NONE)
    /\ environ = Environ("dh2", "2200", "du", "dpw2", NONE, "/key", NONE)
    /\ config = [host |-> "h", port |-> 2200, username |-> "du", password |-> "dpw2",
                 private_key |-> NONE, private_key_passphrase |-> NONE]

\* a transport on which connect() has succeeded
Authenticated(i) == transport[i] \in {"open", "broken"}

\* C19: in a connect_ssh, open_sftp() is called at most once, on the
\* SSHClient whose connect() returned, and after it; self.config is assigned
\* only by a connect_ssh that returns, after its open_sftp() returned, and is
\* the merged config; otherwise self.config is left as it was or cleared.  So
\* an SFTP channel exists, and an SFTPClient or SSHClient is held, only for a
\* transport on which connect() succeeded.
C19_ConnectStepsInOrder ==
    /\ [][op' = "connect" =>
            /\ Cardinality(Calls(log', "open_sftp")) <= 1
            /\ \A j \in Calls(log', "open_sftp") :
                  \E i \in Calls(log', "connect") :
                      /\ i < j
                      /\ log'[i].y = "ok"
                      /\ log'[i].id = log'[j].id
            /\ result' = "ok" =>
                  /\ config' = final'
                  /\ \E j \in Calls(log', "open_sftp") :
                        /\ log'[j].x = "ok"
                        /\ log'[j].id = sftp_client'
                        /\ j = Len(log')
            /\ result' = "error" => config' \in {config, NoConfig}]_vars
    /\ [][config' # config =>
            \/ op' = "connect" /\ result' = "ok" /\ config' = final'
            \/ config' = NoConfig]_vars
    /\ [](\A i \in Slots : channel[i] \in {"open", "broken"} => Authenticated(i))
    /\ [](sftp_client # NoHandle => Authenticated(sftp_client))
    /\ [](ssh_client # NoHandle => Authenticated(ssh_client))

\* C19's case: a connect_ssh by key has returned: the key was parsed,
\* connect() returned, open_sftp() returned, the config is recorded
C19_Witness ==
    /\ op = "connect"
    /\ result = "ok"
    /\ config = final
    /\ Len(log) >= 3
    /\ log[Len(log) - 1].ev = "connect"
    /\ log[Len(log) - 1].x = "pkey"
    /\ log[Len(log)].ev = "open_sftp"
    /\ channel[sftp_client] = "open"

\* C20: a disconnect_ssh that calls both close() calls sftp_client.close()
\* first; and no handler calls close() on an SSHClient while the SFTPClient
\* opened on it is still held: the SFTPClient has been closed and cleared
\* before.
C20_ChannelClosedBeforeTransport ==
    /\ [][op' = "disconnect" =>
            \A i \in Calls(log', "sftp.close"), j \in Calls(log', "ssh.close") : i < j]_vars
    /\ [][\A j \in Calls(log', "ssh.close") :
            sftp_client = log'[j].id =>
                \E i \in Calls(log', "sftp.close") :
                    /\ i < j
                    /\ log'[i].id = log'[j].id
                    /\ log'[i].x = "ok"]_vars

\* C22: after every handler, returned or raised, self.ssh_client is held
\* exactly when self.sftp_client is held, so that the guard on ssh_client
\* (execute_command, get_system_info) and the guard on sftp_client
\* (upload_file, download_file) reject the same states.
C22_HandlesAgree == (ssh_client # NoHandle) <=> (sftp_client # NoHandle)

\* C23: after every handler, self.config is held exactly when
\* self.ssh_client is held; the config a connect_ssh that returned leaves is
\* the one it merged; and while a handle is held no other handler changes
\* the config, so that the config held is that of the last connect_ssh that
\* returned.
C23_ConfigIffTransport ==
    /\ []((config # NoConfig) <=> (ssh_client # NoHandle))
    /\ [](op = "connect" /\ result = "ok" => config = final)
    /\ [][(ssh_client' # NoHandle /\ ~(op' = "connect" /\ result' = "ok")) =>
            config' = config]_vars

\* C21: an _execute_command that has started a command returns: whatever the
\* command writes to standard output and standard error, how much and in
\* which order, the handler comes to the end of stdout.read(), of
\* stderr.read() and of recv_exit_status().
C21_ExecuteTerminates == (stream.phase # "idle") ~> (stream.phase = "idle")

\* C24: with any number of invocations dispatched and run in any order, no
\* coroutine is ever suspended inside a handler: each handler runs from its
\* start to its end in one step of the loop.  So whenever execute_command,
\* upload_file, download_file or get_system_info runs, the SSHClient held,
\* if any, is one whose connect() has returned and whose close() has not
\* been called, and the SFTPClient held, if any, is on an open channel.
C24_HandlersAtomic ==
    /\ [](\A t \in Tasks : tasks[t].at \in {"none", "start"})
    /\ [](op # "suspended")
    /\ [][op' \in BorrowingOps /\ tasks' # tasks =>
            /\ ssh_client # NoHandle => transport[ssh_client] \notin {"created", "closed"}
            /\ sftp_client # NoHandle => channel[sftp_client] \notin {"free", "closed"}
            /\ ssh_client # NoHandle => Authenticated(ssh_client)]_vars

\* C24's case: execute_command has run on the session while a connect_ssh
\* call was dispatched and had not run yet
C24_Witness ==
    /\ op = "execute"
    /\ result = "ok"
    /\ Connected(Here)
    /\ \E t \in Tasks : tasks[t].at = "start" /\ tasks[t].op = "connect"

====
